---------------------------- MODULE Spec2Model ----------------------------
(***************************************************************************)
(* A model of the signal orchestration core of the trading system:        *)
(*   - the Risk Engine        (backend/risk/manager.py)                     *)
(*   - the Rate Limiter       (backend/common/auth.py)                      *)
(*   - the Signal Pipeline    (backend/webhook/app.py), with its ingestion  *)
(*                            boundary and its price broadcast task         *)
(*   - the Broadcast Hub      (backend/common/websocket.py), with its Redis *)
(*                            bridge                                        *)
(*   - the Validator          (backend/model/llm_validator.py)              *)
(*                                                                         *)
(* Numbers.  The code works in floats; the model works in exact integers:  *)
(*   money (equity, pnl)        whole dollars                              *)
(*   signal_confidence          percent (0.6 is 60)                        *)
(*   position volumes, lots     hundredths of a lot (the 0.01 lot step)    *)
(*   position_size_lots         SizeUnit-ths of a lot, fine enough to hold *)
(*                              the exposure headroom exactly              *)
(*   exposure                   cents                                      *)
(***************************************************************************)
EXTENDS Integers, Sequences, FiniteSets, TLC

VARIABLES
    \* ---- Risk Engine (RiskManager) ----
    daily_stats,         \* self.daily_stats: pnl, trades_count, consecutive_losses, last_reset
    kill_switch_active,  \* self.config.kill_switch_active
    utc_today,           \* datetime.utcnow().date(), as a day number
    request,             \* the arguments assess_trade is called with
    risk_call,           \* the last RiskManager call: its name and return value
    closes,              \* the trade closes recorded so far: UTC day and net_pnl of each
    \* ---- Rate Limiter (RateLimiter) ----
    requests,            \* self.requests: {key: [timestamp, ...]}
    utc_now,             \* datetime.utcnow(), in seconds
    limits,              \* the max_requests and window_seconds the caller passes
    admissions,          \* per key, the timestamps of the calls that returned True
    limiter_call,        \* the last is_allowed call: its key and return value
    \* ---- Broadcast Hub (ConnectionManager) ----
    active_connections,  \* self.active_connections: {room: set of websockets}
    websockets,          \* per websocket: the room of its endpoint and the state of its client
    calls,               \* per broadcast_to_room call: its room, caller, iterator and outcome
    delivered,           \* per websocket and call, the send_json calls that returned
    bridge,              \* the Redis bridge: the listener task, its inbox, what was published
    price_task,          \* where broadcast_prices_task stands
    \* ---- Signal Pipeline (receive_signal, process_signal_pipeline) ----
    db_signals,          \* the committed signals table: id -> status, rejection_reason
    db_predictions,      \* the committed predictions table
    db_trades,           \* the committed trades table
    status_log,          \* per signal id, the statuses committed for it, in order
    pc,                  \* per signal id, where its handler or its pipeline run stands
    iter,                \* per signal id, the set iterator of the broadcast it is in
    enqueued,            \* per signal id, the add_task(process_signal_pipeline, id) calls
    started,             \* per signal id, the runs of process_signal_pipeline begun
    events,              \* per signal id, the statuses broadcast_signal was called with
    stage_error,         \* per signal id, the message of the exception a stage raised
    llm_outcome,         \* per signal id, what the LLM service did with its validation
    webhook_call         \* the last receive_signal request and what the handler did with it

risk_vars == <<daily_stats, kill_switch_active, utc_today, request, risk_call, closes>>
limiter_vars == <<requests, utc_now, limits, admissions, limiter_call>>
hub_vars == <<active_connections, websockets>>
hub_run_vars == <<calls, delivered, bridge, price_task>>
db_vars == <<db_signals, db_predictions, db_trades, status_log>>
run_vars == <<enqueued, started, events, stage_error, llm_outcome>>
pipeline_vars == <<db_signals, db_predictions, db_trades, status_log, pc, iter,
                   enqueued, started, events, stage_error, llm_outcome, webhook_call>>

vars == <<daily_stats, kill_switch_active, utc_today, request, risk_call, closes,
          requests, utc_now, limits, admissions, limiter_call,
          active_connections, websockets, calls, delivered, bridge, price_task,
          db_signals, db_predictions, db_trades, status_log, pc, iter,
          enqueued, started, events, stage_error, llm_outcome, webhook_call>>

--------------------------------------------------------------------------
(* Risk Engine: configuration (RiskConfig defaults)                        *)

daily_loss_limit_pct == 2
max_position_size_pct == 5
max_total_exposure_pct == 30
max_consecutive_losses == 3
max_positions_per_symbol == 2
max_total_positions == 10
max_spread_points == 3
min_volatility_atr == 0
max_volatility_atr == 1000

\* "Assume 1 lot = 100k" (dollars of exposure per lot)
LotExposure == 100000
\* point_value = 10, "$10 per pip for 1 standard lot"
point_value == 10
\* "Default SL if not provided"
DefaultStopLossPoints == 50
\* max(0.5, signal_confidence): the floor of the confidence multiplier, percent
MinConfidenceMultiplier == 50
\* lots = max(0.01, min(lots, 10.0)), in hundredths of a lot
MinLotsHundredths == 1
MaxLotsHundredths == 1000
\* if signal_confidence < 0.6 ... elif signal_confidence < 0.5, percent
CautionConfidence == 60
MinimumConfidence == 50

\* position_size_lots is kept in units of 1/SizeUnit lot: one unit is one cent
\* of exposure, so that (max_exposure - current_exposure) / 100000 is exact.
SizeUnit == 100 * LotExposure
HundredthLot == SizeUnit \div 100

\* RiskLevel, and its order list(RiskLevel).index(x)
RiskLevel == <<"low", "medium", "high", "critical">>
RiskLevelIndex(x) == CHOOSE i \in 1..Len(RiskLevel) : RiskLevel[i] = x

\* max(a, b, key=lambda x: list(RiskLevel).index(x))
MaxRiskLevel(a, b) == IF RiskLevelIndex(b) > RiskLevelIndex(a) THEN b ELSE a

--------------------------------------------------------------------------
(* Risk Engine: helpers                                                    *)

\* Python's round() to an integer of the rational n/d (d > 0, n >= 0):
\* to nearest, ties to even.
RoundHalfEven(n, d) ==
    LET q == n \div d
        r == n % d
    IN  IF 2 * r > d THEN q + 1
        ELSE IF 2 * r < d THEN q
        ELSE IF q % 2 = 0 THEN q ELSE q + 1

Min(a, b) == IF a < b THEN a ELSE b
Max(a, b) == IF a > b THEN a ELSE b

RECURSIVE SumVolume(_)
\* sum(p.get('volume', 0) for p in current_positions), hundredths of a lot
SumVolume(positions) ==
    IF positions = <<>> THEN 0
    ELSE Head(positions).volume + SumVolume(Tail(positions))

\* [p for p in current_positions if p.get('symbol') == symbol]
symbol_positions(positions, symbol) ==
    SelectSeq(positions, LAMBDA p : p.symbol = symbol)

\* A variant of _calculate_position_size that truncates to the lot step
\* (int(lots * 100) / 100) where the code rounds
calculate_position_size_truncating(account_equity, signal_confidence, stop_loss_points) ==
    LET confidence_multiplier == Max(MinConfidenceMultiplier, signal_confidence)
        sl == IF stop_loss_points = 0 THEN DefaultStopLossPoints ELSE stop_loss_points
        lots == (account_equity * max_position_size_pct * confidence_multiplier)
                    \div (100 * sl * point_value)
    IN  Max(MinLotsHundredths, Min(lots, MaxLotsHundredths))

\* _calculate_position_size, in hundredths of a lot.
\*   risk_pct    = base_risk_pct * max(0.5, confidence)
\*   risk_amount = equity * risk_pct / 100
\*   lots        = risk_amount / (stop_loss_points * point_value)
\*   lots        = round(lots, 2);  lots = max(0.01, min(lots, 10.0))
calculate_position_size(account_equity, signal_confidence, stop_loss_points) ==
    LET confidence_multiplier == Max(MinConfidenceMultiplier, signal_confidence)
        sl == IF stop_loss_points = 0 THEN DefaultStopLossPoints ELSE stop_loss_points
        \* lots * 100 = equity * pct * mult / (100 * 100) / (sl * point_value) * 100
        lots == RoundHalfEven(account_equity * max_position_size_pct * confidence_multiplier,
                              100 * sl * point_value)
    IN  Max(MinLotsHundredths, Min(lots, MaxLotsHundredths))

\* A variant of _check_daily_reset that compares with <= and so resets on
\* every call
check_daily_reset_every_call(stats, today) ==
    IF stats.last_reset <= today
    THEN [pnl |-> 0, trades_count |-> 0, consecutive_losses |-> 0, last_reset |-> today]
    ELSE stats

\* _check_daily_reset
check_daily_reset(stats, today) ==
    IF stats.last_reset < today
    THEN [pnl |-> 0, trades_count |-> 0, consecutive_losses |-> 0, last_reset |-> today]
    ELSE stats

--------------------------------------------------------------------------
(* Risk Engine: assess_trade, check by check.  Each check takes the        *)
(* running assessment a = [approved, risk_level, position_size_lots,       *)
(* reasons, warnings] and returns it updated.                              *)

StartAssessment ==
    [approved |-> TRUE, risk_level |-> "low", position_size_lots |-> 0,
     reasons |-> <<>>, warnings |-> <<>>]

\* 1. Kill Switch Check: the early return
KillSwitchAssessment ==
    [approved |-> FALSE, risk_level |-> "critical", position_size_lots |-> 0,
     reasons |-> <<"Kill switch is active">>, warnings |-> <<>>]

\* 2. Daily Loss Limit Check: pnl <= -(equity * pct / 100)
daily_loss_check(a, stats, req) ==
    IF stats.pnl * 100 <= -(req.account_equity * daily_loss_limit_pct)
    THEN [a EXCEPT !.approved = FALSE,
                   !.reasons = Append(@, "Daily loss limit reached"),
                   !.risk_level = "critical"]
    ELSE a

\* A variant of check 3 with both comparisons strict (off by one)
consecutive_losses_check_off_by_one(a, stats) ==
    IF stats.consecutive_losses > max_consecutive_losses
    THEN [a EXCEPT !.approved = FALSE,
                   !.reasons = Append(@, "Consecutive loss limit reached"),
                   !.risk_level = "critical"]
    ELSE IF stats.consecutive_losses > max_consecutive_losses - 1
    THEN [a EXCEPT !.warnings = Append(@, "Warning: consecutive losses"),
                   !.risk_level = "high"]
    ELSE a

\* 3. Consecutive Losses Check
consecutive_losses_check(a, stats) ==
    IF stats.consecutive_losses >= max_consecutive_losses
    THEN [a EXCEPT !.approved = FALSE,
                   !.reasons = Append(@, "Consecutive loss limit reached"),
                   !.risk_level = "critical"]
    ELSE IF stats.consecutive_losses >= max_consecutive_losses - 1
    THEN [a EXCEPT !.warnings = Append(@, "Warning: consecutive losses"),
                   !.risk_level = "high"]
    ELSE a

\* 4. Total Positions Limit
total_positions_check(a, req) ==
    IF Len(req.current_positions) >= max_total_positions
    THEN [a EXCEPT !.approved = FALSE,
                   !.reasons = Append(@, "Maximum total positions reached")]
    ELSE a

\* 5. Symbol Position Limit
symbol_positions_check(a, req) ==
    IF Len(symbol_positions(req.current_positions, req.symbol)) >= max_positions_per_symbol
    THEN [a EXCEPT !.approved = FALSE,
                   !.reasons = Append(@, "Maximum positions for symbol reached")]
    ELSE a

\* A variant of check 6 that records the reason and forgets approved = False
spread_filter_reason_only(a, req) ==
    IF \E s \in req.spread_points : s > max_spread_points
    THEN [a EXCEPT !.reasons = Append(@, "Spread too wide")]
    ELSE a

\* 6. Spread Filter (spread_points is an Optional: the empty set is None)
spread_filter(a, req) ==
    IF \E s \in req.spread_points : s > max_spread_points
    THEN [a EXCEPT !.approved = FALSE,
                   !.reasons = Append(@, "Spread too wide")]
    ELSE a

\* 7. Volatility Filter (volatility_atr is an Optional)
volatility_filter(a, req) ==
    IF \E v \in req.volatility_atr : v < min_volatility_atr
    THEN [a EXCEPT !.approved = FALSE,
                   !.reasons = Append(@, "Volatility too low")]
    ELSE IF \E v \in req.volatility_atr : v > max_volatility_atr
    THEN [a EXCEPT !.approved = FALSE,
                   !.reasons = Append(@, "Volatility too high")]
    ELSE a

\* 8. Calculate Position Size
position_size_step(a, req) ==
    [a EXCEPT !.position_size_lots =
        HundredthLot * calculate_position_size(req.account_equity,
                                               req.signal_confidence,
                                               req.stop_loss_points)]

\* current_exposure and max_exposure, in cents
current_exposure(req) == SumVolume(req.current_positions) * HundredthLot
max_exposure(req) == req.account_equity * max_total_exposure_pct

\* 9. Check Total Exposure
exposure_check(a, req) ==
    LET new_exposure == current_exposure(req) + a.position_size_lots
        max_new_lots == max_exposure(req) - current_exposure(req)
    IN  IF new_exposure > max_exposure(req)
        THEN IF max_new_lots <= 0
             THEN [a EXCEPT !.approved = FALSE,
                            !.reasons = Append(@, "Total exposure limit reached")]
             ELSE [a EXCEPT !.position_size_lots = Min(@, max_new_lots),
                            !.warnings = Append(@, "Position size reduced due to exposure limit"),
                            !.risk_level = "medium"]
        ELSE a

\* 10. Signal Confidence Check: if c < 0.6 ... elif c < 0.5 ...
confidence_check(a, req) ==
    IF req.signal_confidence < CautionConfidence
    THEN [a EXCEPT !.warnings = Append(@, "Low signal confidence"),
                   !.risk_level = MaxRiskLevel(@, "medium")]
    ELSE IF req.signal_confidence < MinimumConfidence
    THEN [a EXCEPT !.approved = FALSE,
                   !.reasons = Append(@, "Signal confidence too low")]
    ELSE a

\* assess_trade from check 2 on: what runs when the kill switch is off
assess_checks(stats, req) ==
    LET a2  == daily_loss_check(StartAssessment, stats, req)
        a3  == consecutive_losses_check(a2, stats)
        a4  == total_positions_check(a3, req)
        a5  == symbol_positions_check(a4, req)
        a6  == spread_filter(a5, req)
        a7  == volatility_filter(a6, req)
        a8  == position_size_step(a7, req)
        a9  == exposure_check(a8, req)
    IN  confidence_check(a9, req)

\* A variant of assess_trade without the kill switch check
assess_ignoring_kill_switch(stats, kill, req) == assess_checks(stats, req)

\* assess_trade after _check_daily_reset: stats are the (reset) daily stats,
\* kill is config.kill_switch_active.  The metrics snapshot it also returns
\* copies its inputs and decides nothing; it is left out.
assess(stats, kill, req) ==
    IF kill THEN KillSwitchAssessment ELSE assess_checks(stats, req)

--------------------------------------------------------------------------
(* Risk Engine: the state machine                                          *)

\* Bounds of the model
MaxTrades == 3
MaxDay == 1
MaxCloses == 4

\* The inputs assess_trade is exercised with
Equities == {1000, 10000, 1000000}
Confidences == {40, 50, 60, 100}
StopLosses == {0, 5000}
SpreadInputs == {{}, {3}, {4}}
VolatilityInputs == {{}, {-1}, {1000}, {1001}}
PnlInputs == {-200, -100, 100}
\* The net_pnl values of the closes that are recorded in closes
ClosePnlInputs == {-200, 0, 100}

\* n positions on symbol sym, each of volume vol hundredths of a lot
Positions(n, sym, vol) == [i \in 1..n |-> [symbol |-> sym, volume |-> vol]]

PositionInputs ==
    { <<>>,
      Positions(1, "EURUSD", 1),
      Positions(2, "EURUSD", 1),
      Positions(10, "GBPUSD", 1),
      Positions(1, "GBPUSD", 3),
      Positions(2, "GBPUSD", 150) }

Requests ==
    [symbol : {"EURUSD"},
     account_equity : Equities,
     signal_confidence : Confidences,
     stop_loss_points : StopLosses,
     current_positions : PositionInputs,
     spread_points : SpreadInputs,
     volatility_atr : VolatilityInputs]

NoCall == [op |-> "none"]

\* RiskManager.__init__, RiskConfig defaults
RiskManagerInit ==
    /\ daily_stats = [pnl |-> 0, trades_count |-> 0, consecutive_losses |-> 0,
                      last_reset |-> 0]
    /\ kill_switch_active = FALSE
    /\ utc_today = 0
    /\ risk_call = NoCall
    /\ closes = <<>>

\* A variant of assess_trade whose daily reset also clears the kill switch
assess_trade_reset_clears_kill_switch ==
    LET stats == check_daily_reset(daily_stats, utc_today)
        kill == IF daily_stats.last_reset < utc_today THEN FALSE
                ELSE kill_switch_active
    IN  /\ daily_stats' = stats
        /\ kill_switch_active' = kill
        /\ risk_call' = [op |-> "assess_trade",
                         result |-> assess(stats, kill, request)]
        /\ UNCHANGED <<utc_today, request>>
\* assess_trade(symbol, ..., volatility_atr)
assess_trade ==
    LET stats == check_daily_reset(daily_stats, utc_today)
    IN  /\ daily_stats' = stats
        /\ risk_call' = [op |-> "assess_trade",
                         result |-> assess(stats, kill_switch_active, request)]
        /\ UNCHANGED <<kill_switch_active, utc_today, request>>

\* A variant of update_daily_stats that counts a break-even close as a loss
update_daily_stats_loss_on_zero(pnl) ==
    LET stats == check_daily_reset(daily_stats, utc_today)
    IN  /\ stats.trades_count < MaxTrades
        /\ daily_stats' =
              [stats EXCEPT !.pnl = @ + pnl,
                            !.trades_count = @ + 1,
                            !.consecutive_losses = IF pnl <= 0 THEN @ + 1 ELSE 0]
        /\ risk_call' = [op |-> "update_daily_stats"]
        /\ UNCHANGED <<kill_switch_active, utc_today, request>>

\* update_daily_stats({'net_pnl': pnl})
update_daily_stats(pnl) ==
    LET stats == check_daily_reset(daily_stats, utc_today)
    IN  /\ stats.trades_count < MaxTrades
        /\ daily_stats' =
              [stats EXCEPT !.pnl = @ + pnl,
                            !.trades_count = @ + 1,
                            !.consecutive_losses = IF pnl < 0 THEN @ + 1 ELSE 0]
        /\ risk_call' = [op |-> "update_daily_stats"]
        /\ UNCHANGED <<kill_switch_active, utc_today, request>>

activate_kill_switch ==
    /\ kill_switch_active' = TRUE
    /\ risk_call' = [op |-> "activate_kill_switch"]
    /\ UNCHANGED <<daily_stats, utc_today, request>>

deactivate_kill_switch ==
    /\ kill_switch_active' = FALSE
    /\ risk_call' = [op |-> "deactivate_kill_switch"]
    /\ UNCHANGED <<daily_stats, utc_today, request>>

\* The UTC date advances (datetime.utcnow().date() returns the next day)
AdvanceDay ==
    /\ utc_today < MaxDay
    /\ utc_today' = utc_today + 1
    /\ UNCHANGED <<daily_stats, kill_switch_active, request, risk_call>>

\* The close update_daily_stats was just called with is recorded
RecordClose(pnl) ==
    /\ Len(closes) < MaxCloses
    /\ closes' = Append(closes, [day |-> utc_today, net_pnl |-> pnl])

\* The inputs _calculate_position_size is exercised with on its own. None of
\* them puts the raw size halfway between two lot steps above the minimum lot:
\* there round(lots, 2) follows the binary representation of the float.
SizingEquities == {1000, 10000, 20000, 1000000}
SizingConfidences == {0, 40, 50, 60, 100}
SizingStopLosses == {0, 50, 70, 5000}

SizingRequests ==
    [symbol : {"EURUSD"},
     account_equity : SizingEquities,
     signal_confidence : SizingConfidences,
     stop_loss_points : SizingStopLosses,
     current_positions : {<<>>},
     spread_points : {{}},
     volatility_atr : {{}}]

\* _calculate_position_size(account_equity, signal_confidence, stop_loss_points)
\* called on its own; it reads the configuration and no other state
call_calculate_position_size ==
    /\ risk_call.op = "none"
    /\ risk_call' = [op |-> "_calculate_position_size",
                     result |-> calculate_position_size(request.account_equity,
                                                        request.signal_confidence,
                                                        request.stop_loss_points)]
    /\ UNCHANGED <<daily_stats, kill_switch_active, utc_today, request>>

--------------------------------------------------------------------------
(* Rate Limiter                                                            *)

\* Bounds of the model
MaxTime == 4
MaxRequestsBound == 2
MaxWindowBound == 2

Keys == {"10.0.0.1", "10.0.0.2"}

\* self.requests[key], once "if key not in self.requests: self.requests[key] = []" ran
TimestampsOf(key) == IF key \in DOMAIN requests THEN requests[key] ELSE <<>>

\* RateLimiter.__init__
RateLimiterInit ==
    /\ requests = <<>>
    /\ utc_now = 0
    /\ admissions = [k \in Keys |-> <<>>]
    /\ limiter_call = NoCall

\* [ts for ts in self.requests[key] if ts > cutoff]
RetainedTimestamps(timestamps, cutoff) ==
    SelectSeq(timestamps, LAMBDA ts : ts > cutoff)

\* A variant of is_allowed that records the timestamp of a refused call too
is_allowed_recording_refusals(key, max_requests, window_seconds) ==
    LET now == utc_now
        cutoff == now - window_seconds
        kept == RetainedTimestamps(TimestampsOf(key), cutoff)
    IN  IF Len(kept) >= max_requests
        THEN /\ requests' = (key :> Append(kept, now)) @@ requests
             /\ limiter_call' = [op |-> "is_allowed", key |-> key, result |-> FALSE]
             /\ UNCHANGED <<utc_now, limits, admissions>>
        ELSE /\ requests' = (key :> Append(kept, now)) @@ requests
             /\ admissions' = [admissions EXCEPT ![key] = Append(@, now)]
             /\ limiter_call' = [op |-> "is_allowed", key |-> key, result |-> TRUE]
             /\ UNCHANGED <<utc_now, limits>>
\* is_allowed(key, max_requests, window_seconds); it has no await, and runs
\* to its return without another coroutine in between
is_allowed(key, max_requests, window_seconds) ==
    LET now == utc_now
        cutoff == now - window_seconds
        kept == RetainedTimestamps(TimestampsOf(key), cutoff)
    IN  IF Len(kept) >= max_requests
        THEN /\ requests' = (key :> kept) @@ requests
             /\ limiter_call' = [op |-> "is_allowed", key |-> key, result |-> FALSE]
             /\ UNCHANGED <<utc_now, limits, admissions>>
        ELSE /\ requests' = (key :> Append(kept, now)) @@ requests
             /\ admissions' = [admissions EXCEPT ![key] = Append(@, now)]
             /\ limiter_call' = [op |-> "is_allowed", key |-> key, result |-> TRUE]
             /\ UNCHANGED <<utc_now, limits>>

\* datetime.utcnow() moves on by a second
AdvanceTime ==
    /\ utc_now < MaxTime
    /\ utc_now' = utc_now + 1
    /\ UNCHANGED <<requests, limits, admissions, limiter_call>>

--------------------------------------------------------------------------
(* Broadcast Hub                                                           *)

\* Bounds of the model
MaxWebsockets == 2
MaxSignals == 2

Websockets == 1..MaxWebsockets
SignalIds == 1..MaxSignals

\* class Room
Room == {"signals", "trades", "logs", "system_health", "risk_metrics", "prices"}
\* The rooms observers ask for in /ws/{room}
RoomInputs == {"signals", "trades"}

\* ConnectionManager.__init__; no websocket has connected yet
ConnectionManagerInit ==
    /\ active_connections = [room \in Room |-> {}]
    /\ websockets = [w \in Websockets |-> [state |-> "new", room |-> "none"]]

\* self.active_connections[room], after "if room not in self.active_connections"
ConnectionsOf(room) ==
    IF room \in DOMAIN active_connections THEN active_connections[room] ELSE {}

\* connect(websocket, room): accept, then add to the room's set. Its one
\* caller, websocket_endpoint, connects each websocket once, to the room of
\* its URL: a websocket is registered under one room.
connect(w, room) ==
    /\ websockets[w].state = "new"
    /\ websockets' = [websockets EXCEPT ![w] = [state |-> "open", room |-> room]]
    /\ active_connections' = (room :> (ConnectionsOf(room) \cup {w})) @@ active_connections

\* The client of an open websocket goes away: from now on a send to it raises,
\* and the receive_text its endpoint waits in raises WebSocketDisconnect
ClientGone(w) ==
    /\ websockets[w].state = "open"
    /\ websockets' = [websockets EXCEPT ![w].state = "gone"]
    /\ UNCHANGED active_connections

\* A variant of disconnect that leaves the room's set as it is
disconnect_without_discard(w) ==
    /\ websockets[w].state = "gone"
    /\ websockets' = [websockets EXCEPT ![w].state = "closed"]
    /\ active_connections' = active_connections
\* disconnect(websocket, room), called by websocket_endpoint's except clauses
disconnect(w) ==
    /\ websockets[w].state = "gone"
    /\ websockets' = [websockets EXCEPT ![w].state = "closed"]
    /\ active_connections' =
         LET room == websockets[w].room
         IN  IF room \in DOMAIN active_connections
             THEN [active_connections EXCEPT ![room] = @ \ {w}]
             ELSE active_connections

(***************************************************************************)
(* broadcast_to_room iterates over the room's set itself and suspends at   *)
(* every send.  The iterator of a Python set remembers the size the set    *)
(* had (si_used); each next() compares it with the size the set has now    *)
(* and raises RuntimeError("Set changed size during iteration") when they  *)
(* differ.  When the set changed and has its old size again, the order of  *)
(* its table is not what the iterator started on: next() may yield any     *)
(* member not yet yielded, or end.                                         *)
(*                                                                         *)
(* An iterator is [room, si_used, start, yielded, current, disconnected]:  *)
(* start is the set it was created on, current the websocket whose send    *)
(* the coroutine is suspended in, disconnected the local set of the call.  *)
(***************************************************************************)

NoIter == [room |-> "none"]

\* for connection in self.active_connections[room]: the iterator and its first next()
StartIterations(room) ==
    { [room |-> room, si_used |-> Cardinality(ConnectionsOf(room)),
       start |-> ConnectionsOf(room), yielded |-> {w}, current |-> w,
       disconnected |-> {}] : w \in ConnectionsOf(room) }

\* await connection.send_json(message) returns or raises; the except clause
\* of the loop adds the connection to disconnected
AfterSend(it) ==
    IF websockets[it.current].state = "open"
    THEN it
    ELSE [it EXCEPT !.disconnected = @ \cup {it.current}]

\* next() raises RuntimeError
SetChangedSize(it) == Cardinality(ConnectionsOf(it.room)) # it.si_used

\* The websockets next() may yield
NextYields(it) == ConnectionsOf(it.room) \ it.yielded

\* next() may raise StopIteration
MayStop(it) ==
    \/ NextYields(it) = {}
    \/ ConnectionsOf(it.room) # it.start

\* for connection in disconnected: self.active_connections[room].discard(connection)
RemoveDisconnected(it) ==
    [active_connections EXCEPT ![it.room] = @ \ it.disconnected]

--------------------------------------------------------------------------
(* Broadcast Hub: broadcast_to_room as its callers use it.  A call is one  *)
(* broadcast_to_room(room, message); its message is named by the call.     *)
(* The callers are a coroutine of this process ("local"), _redis_listener  *)
(* ("bus") and broadcast_prices_task ("prices").                           *)

\* Bounds of the model
MaxBroadcasts == 2
MaxBusMessages == 1

BroadcastIds == 1..MaxBroadcasts

\* The rooms observers ask for, and the rooms local callers broadcast to;
\* "alerts" is a room nobody has created
HubRoomInputs == {"signals", "prices"}
LocalBroadcastRooms == {"signals", "alerts"}

NoBroadcast ==
    [state |-> "idle", room |-> "none", origin |-> "none", for_room |-> "none",
     it |-> NoIter, members |-> {}, attempted |-> {}, failed |-> {}]

\* format() of a member of class Room(str, Enum) in an f-string: its value
\* up to Python 3.10, "Room.NAME" from Python 3.11 on
EnumFormats == {"value", "name"}
MemberName ==
    [signals |-> "Room.SIGNALS", trades |-> "Room.TRADES", logs |-> "Room.LOGS",
     system_health |-> "Room.SYSTEM_HEALTH", risk_metrics |-> "Room.RISK_METRICS",
     prices |-> "Room.PRICES"]

\* f"{room}" for a room passed as a Room member or as a plain str
format_room(room, is_member, enum_format) ==
    IF is_member /\ enum_format = "name" THEN MemberName[room] ELSE room

\* f"trading:{room}", and channel.split(':', 1)[1]
channel_of(text) == [prefix |-> "trading", rest |-> text]
room_of(channel) == channel.rest

\* channels = [f"trading:{room}" for room in Room]
subscribed_channels(enum_format) ==
    {channel_of(format_room(room, TRUE, enum_format)) : room \in Room}

\* The hub as startup leaves it: Redis connected and the listener subscribed,
\* the price task created, no broadcast made. The build decides enum_format.
HubRunInit ==
    /\ calls = [b \in BroadcastIds |-> NoBroadcast]
    /\ delivered = [w \in Websockets |-> [b \in BroadcastIds |-> 0]]
    /\ bridge \in [enum_format : EnumFormats, listener : {"listening"},
                   inbox : {<<>>}, published : {<<>>}, sent : {0}]
    /\ price_task = "fetching"

\* broadcast_to_room(room, message) up to its first suspension, as call b.
\* It returns at once for a room that does not exist or has nobody in it;
\* else it suspends in its first send. for_room is the room the caller, or
\* the publisher of a bus message, meant.
StartBroadcast(b, room, origin, for_room) ==
    /\ calls[b].state = "idle"
    /\ \A c \in 1..(b - 1) : calls[c].state # "idle"
    /\ IF room \notin DOMAIN active_connections \/ ConnectionsOf(room) = {}
       THEN calls' = [calls EXCEPT ![b] =
                        [NoBroadcast EXCEPT !.state = "returned", !.room = room,
                                            !.origin = origin, !.for_room = for_room]]
       ELSE \E it \in StartIterations(room) :
               calls' = [calls EXCEPT ![b] =
                           [NoBroadcast EXCEPT !.state = "sending", !.room = room,
                                               !.origin = origin, !.for_room = for_room,
                                               !.it = it, !.members = ConnectionsOf(room)]]

\* await connection.send_json(message) returned: the websocket got message b
Deliver(b, it) ==
    IF websockets[it.current].state = "open"
    THEN [delivered EXCEPT ![it.current][b] = @ + 1]
    ELSE delivered

\* The call is over: what there is to see of it afterwards
EndBroadcast(b, it, state) ==
    calls' = [calls EXCEPT ![b].state = state, ![b].it = NoIter,
                           ![b].attempted = it.yielded,
                           ![b].failed = it.disconnected]

\* What its caller does when call b is over: _redis_listener goes on
\* listening, or its except clause ends it; broadcast_prices_task sleeps 2
\* seconds, or its except clause sleeps 5
CallerResumes(b, raised) ==
    /\ bridge' = IF calls[b].origin = "bus"
                 THEN [bridge EXCEPT !.listener = IF raised THEN "stopped" ELSE "listening"]
                 ELSE bridge
    /\ price_task' = IF calls[b].origin = "prices"
                     THEN IF raised THEN "error_sleeping" ELSE "sleeping"
                     ELSE price_task

\* A coroutine of this process calls broadcast_to_room(room, message)
local_broadcast(b, room) ==
    /\ StartBroadcast(b, room, "local", room)
    /\ UNCHANGED <<hub_vars, delivered, bridge, price_task>>

\* The suspended send of call b returns (or raises, and is caught), and the
\* loop's next() yields the websocket w
room_broadcast_next(b, w) ==
    /\ calls[b].state = "sending"
    /\ LET it == AfterSend(calls[b].it)
       IN  /\ ~SetChangedSize(it)
           /\ w \in NextYields(it)
           /\ calls' = [calls EXCEPT ![b].it =
                          [it EXCEPT !.yielded = @ \cup {w}, !.current = w]]
    /\ delivered' = Deliver(b, calls[b].it)
    /\ UNCHANGED <<hub_vars, bridge, price_task>>

\* The suspended send returns, the loop ends, the disconnected are removed
\* and call b returns to its caller
room_broadcast_end(b) ==
    /\ calls[b].state = "sending"
    /\ LET it == AfterSend(calls[b].it)
       IN  /\ ~SetChangedSize(it)
           /\ MayStop(it)
           /\ active_connections' = RemoveDisconnected(it)
           /\ EndBroadcast(b, it, "returned")
    /\ delivered' = Deliver(b, calls[b].it)
    /\ CallerResumes(b, FALSE)
    /\ UNCHANGED websockets

\* The suspended send returns and the loop's next() raises RuntimeError,
\* which leaves call b before the disconnected are removed
room_broadcast_raises(b) ==
    /\ calls[b].state = "sending"
    /\ LET it == AfterSend(calls[b].it)
       IN  /\ SetChangedSize(it)
           /\ EndBroadcast(b, it, "raised")
    /\ delivered' = Deliver(b, calls[b].it)
    /\ CallerResumes(b, TRUE)
    /\ UNCHANGED hub_vars

\* Redis hands a message published on channel to the listener, when the
\* listener has subscribed to that channel
RedisDelivers(inbox, message) ==
    IF message.channel \in subscribed_channels(bridge.enum_format)
    THEN Append(inbox, message)
    ELSE inbox

\* Another process running this code calls publish_to_redis(room, message),
\* with room a Room member or a plain str
peer_publishes(room, is_member) ==
    LET message == [channel |-> channel_of(format_room(room, is_member, bridge.enum_format)),
                    for_room |-> room, source |-> "peer", n |-> bridge.sent + 1]
    IN  /\ bridge.sent < MaxBusMessages
        /\ bridge' = [bridge EXCEPT !.sent = @ + 1,
                                    !.inbox = RedisDelivers(@, message)]
        /\ UNCHANGED <<hub_vars, calls, delivered, price_task>>

\* publish_to_redis(room, message) of this process; Redis hands the message
\* to every subscriber of the channel, this process's listener included
publish_to_redis(room, is_member) ==
    LET message == [channel |-> channel_of(format_room(room, is_member, bridge.enum_format)),
                    for_room |-> room, source |-> "local", n |-> bridge.sent + 1]
    IN  /\ bridge.sent < MaxBusMessages
        /\ bridge' = [bridge EXCEPT !.sent = @ + 1,
                                    !.published = Append(@, message),
                                    !.inbox = RedisDelivers(@, message)]
        /\ UNCHANGED <<hub_vars, calls, delivered, price_task>>

\* _redis_listener: pubsub.listen() yields the next message; the room is cut
\* out of its channel and the data is broadcast to that room, as call b
redis_listener_receives(b) ==
    /\ bridge.listener = "listening"
    /\ bridge.inbox # <<>>
    /\ LET message == Head(bridge.inbox)
           room == room_of(message.channel)
       IN  StartBroadcast(b, room, "bus", message.for_room)
    /\ bridge' = [bridge EXCEPT !.inbox = Tail(@),
                                !.listener = IF calls'[b].state = "returned"
                                             THEN "listening" ELSE "delivering"]
    /\ UNCHANGED <<hub_vars, delivered, price_task>>

\* broadcast_prices_task: price_feed.get_all_prices returns and the prices
\* are broadcast to Room.PRICES, as call b
price_fetch_returns(b) ==
    /\ price_task = "fetching"
    /\ StartBroadcast(b, "prices", "prices", "prices")
    /\ price_task' = IF calls'[b].state = "returned" THEN "sleeping" ELSE "broadcasting"
    /\ UNCHANGED <<hub_vars, delivered, bridge>>

\* broadcast_prices_task: get_all_prices raises; the except clause sleeps 5
price_fetch_raises ==
    /\ price_task = "fetching"
    /\ price_task' = "error_sleeping"
    /\ UNCHANGED <<hub_vars, calls, delivered, bridge>>

\* broadcast_prices_task: asyncio.sleep returns and the loop starts over
price_sleep_ends ==
    /\ price_task \in {"sleeping", "error_sleeping"}
    /\ price_task' = "fetching"
    /\ UNCHANGED <<hub_vars, calls, delivered, bridge>>

\* The calls a cancelled task is suspended in: CancelledError is raised in
\* their send, passes the loop's "except Exception" and leaves the call
CancelCalls(origins) ==
    [b \in BroadcastIds |->
        IF calls[b].state = "sending" /\ calls[b].origin \in origins
        THEN [calls[b] EXCEPT !.state = "cancelled", !.it = NoIter,
                              !.attempted = calls[b].it.yielded,
                              !.failed = calls[b].it.disconnected]
        ELSE calls[b]]

\* shutdown_event: price_task.cancel() and await price_task, where the task
\* ends at the await it is suspended in; then close_all closes every
\* registered connection and cancels the listener
shutdown_event ==
    /\ price_task # "ended"
    /\ price_task' = "ended"
    /\ calls' = CancelCalls({"prices", "bus"})
    /\ bridge' = [bridge EXCEPT !.listener = "cancelled"]
    /\ websockets' = [w \in Websockets |->
                        IF websockets[w].state = "open"
                        THEN [websockets[w] EXCEPT !.state = "gone"]
                        ELSE websockets[w]]
    /\ UNCHANGED <<active_connections, delivered>>

--------------------------------------------------------------------------
(* Natural-language validator (LLMValidator), with LLM_VALIDATION_ENABLED  *)
(* at its default.  What the LLM service does with a request is an outcome:*)
(*   connection_error  requests.post raises ConnectionError                *)
(*   timeout           requests.post raises Timeout                        *)
(*   http_error        the status code is not 200                          *)
(*   invalid_json      response.json() or json.loads(...) raises           *)
(*   answer            json.loads(...) returns a value: a dict, as a       *)
(*                     function from its keys to their values, or a value  *)
(*                     that is no dict (a list, a number)                  *)
(* confidence is in percent, a reasoning text is named by what it says.    *)
(***************************************************************************)

\* The dicts an answer may hold: a complete verdict, one without the key
\* approved, one with nothing in it
ApprovingVerdict == [approved |-> TRUE, confidence |-> 90, reasoning |-> "verdict"]
RejectingVerdict == [approved |-> FALSE, confidence |-> 80, reasoning |-> "verdict"]
VerdictWithoutApproved == [confidence |-> 90, reasoning |-> "verdict"]
EmptyDict == <<>>

LLMOutcomes ==
    { [kind |-> "connection_error"], [kind |-> "timeout"],
      [kind |-> "http_error"], [kind |-> "invalid_json"],
      [kind |-> "answer", is_dict |-> FALSE] }
    \cup { [kind |-> "answer", is_dict |-> TRUE, dict |-> d] :
              d \in {ApprovingVerdict, RejectingVerdict, VerdictWithoutApproved, EmptyDict} }

\* llm_response.get(key, default)
Get(dict, key, default) == IF key \in DOMAIN dict THEN dict[key] ELSE default

\* _fallback_validation: the dict returned when the service is not running
fallback_validation ==
    [approved |-> TRUE, confidence |-> 70, reasoning |-> "LLM service unavailable"]

\* _call_llm: what it returns, or the exception it raises
call_llm(outcome) ==
    IF outcome.kind = "connection_error"
    THEN [raised |-> FALSE, is_dict |-> TRUE, dict |-> fallback_validation]
    ELSE IF outcome.kind \in {"timeout", "http_error", "invalid_json"}
    THEN [raised |-> TRUE, message |-> "LLM call failed"]
    ELSE IF outcome.is_dict
    THEN [raised |-> FALSE, is_dict |-> TRUE, dict |-> outcome.dict]
    ELSE [raised |-> FALSE, is_dict |-> FALSE]

\* _parse_llm_response: a value without .get raises inside its try
parse_llm_response(llm_response) ==
    IF ~llm_response.is_dict
    THEN [approved |-> FALSE, reasoning |-> "Failed to parse LLM response",
          confidence |-> 0]
    ELSE [approved |-> Get(llm_response.dict, "approved", FALSE),
          reasoning |-> Get(llm_response.dict, "reasoning", "No reasoning provided"),
          confidence |-> Get(llm_response.dict, "confidence", 50)]

\* validate_signal: (approved, reasoning, confidence)
validate_signal(outcome) ==
    LET llm_response == call_llm(outcome)
    IN  IF llm_response.raised
        THEN [approved |-> TRUE, reasoning |-> "LLM validation error",
              confidence |-> 50]
        ELSE parse_llm_response(llm_response)

--------------------------------------------------------------------------
(* Signal Pipeline                                                         *)
(*                                                                         *)
(* pc[id] is where the coroutine working on signal id stands:              *)
(*   idle                no request has created the signal yet             *)
(*   receive_broadcast   receive_signal, suspended in a send of its        *)
(*                       broadcast_signal                                  *)
(*   receive_error       receive_signal ended by an exception              *)
(*   queued              background_tasks.add_task done, response returned *)
(*   validating          process_signal_pipeline, suspended in             *)
(*                       ai_client.validate_signal                         *)
(*   rejected_broadcast  suspended in a send of the broadcast that follows *)
(*                       the rejected commit                               *)
(*   executed_broadcast  the same, after the executed commit               *)
(*   done                process_signal_pipeline returned                  *)
(*   run_error           process_signal_pipeline ended by an exception     *)
(***************************************************************************)

\* "Placeholder - would call risk service"
risk_approved == TRUE
\* position_size = 0.1, in hundredths of a lot
position_size == 10

Terminal == {"executed", "rejected", "failed"}
BroadcastPcs == {"receive_broadcast", "rejected_broadcast", "executed_broadcast"}

NoOutcome == [kind |-> "none"]

\* The database is empty, no request has come in
PipelineInit ==
    /\ db_signals = <<>>
    /\ db_predictions = <<>>
    /\ db_trades = <<>>
    /\ status_log = [id \in SignalIds |-> <<>>]
    /\ pc = [id \in SignalIds |-> "idle"]
    /\ iter = [id \in SignalIds |-> NoIter]
    /\ enqueued = [id \in SignalIds |-> 0]
    /\ started = [id \in SignalIds |-> 0]
    /\ events = [id \in SignalIds |-> <<>>]
    /\ stage_error = [id \in SignalIds |-> "none"]
    /\ llm_outcome = [id \in SignalIds |-> NoOutcome]
    /\ webhook_call = NoCall

\* signal.status = status; signal.rejection_reason = reason; db.commit()
CommitStatus(id, status, reason) ==
    /\ db_signals' = (id :> [status |-> status, rejection_reason |-> reason]) @@ db_signals
    /\ status_log' = [status_log EXCEPT ![id] = Append(@, status)]

\* await ws_manager.broadcast_signal({..., "status": signal.status.value, ...}):
\* broadcast_to_room(Room.SIGNALS, ...) up to its first suspension. With nobody
\* in the room it returns at once and the coroutine goes on to after; else it
\* suspends in its first send, at busy.
BeginBroadcast(id, status, busy, after) ==
    /\ events' = [events EXCEPT ![id] = Append(@, status)]
    /\ IF ConnectionsOf("signals") = {}
       THEN /\ pc' = [pc EXCEPT ![id] = after]
            /\ iter' = iter
       ELSE /\ pc' = [pc EXCEPT ![id] = busy]
            /\ \E it \in StartIterations("signals") : iter' = [iter EXCEPT ![id] = it]

\* What follows the broadcast of each coroutine
AfterBroadcast(at) == IF at = "receive_broadcast" THEN "queued" ELSE "done"

\* A variant of add_task that enqueues the run as soon as the Signal is
\* committed, before its received broadcast has returned
add_task_before_broadcast(id) ==
    enqueued' = IF pc[id] = "idle" /\ pc'[id] # "idle"
                THEN [enqueued EXCEPT ![id] = @ + 1]
                ELSE enqueued
\* background_tasks.add_task(process_signal_pipeline, signal.id), the statement
\* of receive_signal that follows its broadcast: it runs in the step in which
\* the broadcast returns
add_task(id) ==
    enqueued' = IF pc[id] # "queued" /\ pc'[id] = "queued"
                THEN [enqueued EXCEPT ![id] = @ + 1]
                ELSE enqueued

\* auth_config.TRADINGVIEW_SECRET, and a key that is not the secret
TRADINGVIEW_SECRET == "secret"
OtherKey == "guess"

\* The request bodies: a JSON payload with all its fields, one that leaves the
\* optional entry_price out, and one that json.loads or SignalPayload refuses
Bodies == {"complete", "no_entry_price", "malformed"}

\* WebhookSignatureValidator.generate_signature: the HMAC-SHA256 digest, which
\* is one digest per key and payload and differs when either differs
generate_signature(payload, secret) == [key |-> secret, payload |-> payload]

\* The empty string, which is no digest
EmptySignature == [key |-> "", payload |-> ""]

\* WebhookSignatureValidator.validate_signature
validate_signature(payload, received_signature) ==
    generate_signature(payload, TRADINGVIEW_SECRET) = received_signature

\* The X-TradingView-Signature header of a request: absent, or present with
\* the empty string or with a digest of some payload under some key
NoSignatureHeader == [present |-> FALSE, value |-> EmptySignature]
SignatureHeaders ==
    {NoSignatureHeader}
    \cup {[present |-> TRUE, value |-> v] :
            v \in {EmptySignature}
                  \cup {generate_signature(b, k) :
                          b \in Bodies, k \in {TRADINGVIEW_SECRET, OtherKey}}}

\* request.headers.get('X-TradingView-Signature', '')
HeaderGet(header) == IF header.present THEN header.value ELSE EmptySignature

ClientIps == {"10.0.0.1"}

\* The requests POST /webhook/signal is called with
WebhookRequests ==
    [client_ip : ClientIps, body : Bodies, signature_header : SignatureHeaders]

\* A request of TradingView itself: a complete payload, signed with the secret
AuthenticRequest ==
    [client_ip |-> "10.0.0.1", body |-> "complete",
     signature_header |->
        [present |-> TRUE, value |-> generate_signature("complete", TRADINGVIEW_SECRET)]]

\* rate_limiter.is_allowed(client_ip, max_requests=10, window_seconds=60)
webhook_max_requests == 10
webhook_window_seconds == 60

\* receive_signal. The rate limit, the signature and the payload are checked
\* in turn and each raises an HTTPException; a payload without entry_price
\* raises TypeError where the targets are computed. Else the Signal is
\* created with status received and committed, the audit row is committed,
\* and the received event is broadcast. Ids are handed out in order.
\* error_status is the status of the error response, 0 when the handler went
\* on to create the Signal; signal_id is the id of the Signal it created, 0
\* when it created none.
receive_signal(id, req) ==
    LET signature == HeaderGet(req.signature_header)
        error_status ==
            IF ~limiter_call'.result THEN 429
            ELSE IF signature # EmptySignature
                    /\ ~validate_signature(req.body, signature) THEN 401
            ELSE IF req.body = "malformed" THEN 400
            ELSE IF req.body = "no_entry_price" THEN 500
            ELSE 0
    IN  /\ pc[id] = "idle"
        /\ id = Cardinality(DOMAIN db_signals) + 1
        /\ is_allowed(req.client_ip, webhook_max_requests, webhook_window_seconds)
        /\ IF error_status # 0
           THEN /\ webhook_call' = [op |-> "receive_signal", request |-> req,
                                    rate_limited |-> ~limiter_call'.result,
                                    error_status |-> error_status, signal_id |-> 0]
                /\ UNCHANGED <<db_signals, status_log, pc, iter, enqueued, events>>
           ELSE /\ webhook_call' = [op |-> "receive_signal", request |-> req,
                                    rate_limited |-> FALSE,
                                    error_status |-> 0, signal_id |-> id]
                /\ CommitStatus(id, "received", "none")
                /\ BeginBroadcast(id, "received", "receive_broadcast", "queued")
                /\ add_task(id)
        /\ UNCHANGED <<db_predictions, db_trades, started, stage_error, llm_outcome, hub_vars>>

\* A suspended send of a broadcast returns (or raises, and is caught), and
\* the loop's next() yields the websocket w
broadcast_next(id, w) ==
    /\ pc[id] \in BroadcastPcs
    /\ LET it == AfterSend(iter[id])
       IN  /\ ~SetChangedSize(it)
           /\ w \in NextYields(it)
           /\ iter' = [iter EXCEPT ![id] =
                         [it EXCEPT !.yielded = @ \cup {w}, !.current = w]]
    /\ UNCHANGED <<pc, db_vars, run_vars, hub_vars>>

\* A suspended send returns, the loop ends, the disconnected are removed and
\* broadcast_to_room returns: receive_signal enqueues the pipeline run and
\* responds, process_signal_pipeline returns
broadcast_end(id) ==
    /\ pc[id] \in BroadcastPcs
    /\ LET it == AfterSend(iter[id])
       IN  /\ ~SetChangedSize(it)
           /\ MayStop(it)
           /\ active_connections' = RemoveDisconnected(it)
    /\ iter' = [iter EXCEPT ![id] = NoIter]
    /\ pc' = [pc EXCEPT ![id] = AfterBroadcast(pc[id])]
    /\ add_task(id)
    /\ UNCHANGED <<db_vars, started, events, stage_error, llm_outcome, websockets>>

\* The except clause of process_signal_pipeline, entered with the exception
\* message: signal.status = FAILED; signal.rejection_reason = str(e);
\* db.commit(). The commit returns, or it raises in its turn: the exception
\* then leaves the run, get_db rolls back and re-raises, and nothing of the
\* except clause is stored.
except_clause(id, message, commit_returns) ==
    /\ stage_error' = [stage_error EXCEPT ![id] = message]
    /\ IF commit_returns
       THEN /\ CommitStatus(id, "failed", message)
            /\ pc' = [pc EXCEPT ![id] = "done"]
       ELSE /\ UNCHANGED <<db_signals, status_log>>
            /\ pc' = [pc EXCEPT ![id] = "run_error"]

\* A suspended send returns and the loop's next() raises RuntimeError, which
\* leaves broadcast_to_room. In receive_signal nothing catches it: the request
\* ends before add_task. In process_signal_pipeline the broadcast is inside
\* the try.
broadcast_raises(id, commit_returns) ==
    /\ pc[id] \in BroadcastPcs
    /\ SetChangedSize(AfterSend(iter[id]))
    /\ iter' = [iter EXCEPT ![id] = NoIter]
    /\ IF pc[id] = "receive_broadcast"
       THEN /\ pc' = [pc EXCEPT ![id] = "receive_error"]
            /\ UNCHANGED <<db_signals, status_log, stage_error>>
       ELSE except_clause(id, "Set changed size during iteration", commit_returns)
    /\ UNCHANGED <<db_predictions, db_trades, enqueued, started, events, llm_outcome,
                   hub_vars>>

\* process_signal_pipeline(signal_id), a task that was added, starts: the
\* signal is found, the prediction is fetched and the coroutine suspends in
\* validate_signal
pipeline_start(id) ==
    /\ pc[id] = "queued"
    /\ started[id] < enqueued[id]
    /\ id \in DOMAIN db_signals
    /\ started' = [started EXCEPT ![id] = @ + 1]
    /\ pc' = [pc EXCEPT ![id] = "validating"]
    /\ UNCHANGED <<db_vars, iter, enqueued, events, stage_error, llm_outcome, hub_vars>>

\* validate_signal returns, the LLM service having done outcome; the
\* Prediction is committed. A veto commits rejected and broadcasts. Else
\* step 3, the risk placeholder, and step 4: the Trade and status executed
\* are committed together and broadcast.
pipeline_decide(id, outcome) ==
    LET validation_result == validate_signal(outcome)
        llm_approved == validation_result.approved
    IN  /\ pc[id] = "validating"
        /\ llm_outcome' = [llm_outcome EXCEPT ![id] = outcome]
        /\ db_predictions' = Append(db_predictions,
                                    [signal_id |-> id,
                                     llm_approved |-> llm_approved,
                                     llm_reasoning |-> validation_result.reasoning,
                                     llm_confidence |-> validation_result.confidence])
        /\ IF ~llm_approved
           THEN /\ CommitStatus(id, "rejected", "LLM rejected")
                /\ db_trades' = db_trades
                /\ BeginBroadcast(id, "rejected", "rejected_broadcast", "done")
           ELSE IF ~risk_approved
           THEN /\ CommitStatus(id, "rejected", "Risk manager rejected")
                /\ db_trades' = db_trades
                /\ pc' = [pc EXCEPT ![id] = "done"]
                /\ UNCHANGED <<iter, events>>
           ELSE /\ db_trades' = Append(db_trades,
                                       [signal_id |-> id, requested_lots |-> position_size])
                /\ CommitStatus(id, "executed", db_signals[id].rejection_reason)
                /\ BeginBroadcast(id, "executed", "executed_broadcast", "done")
        /\ UNCHANGED <<enqueued, started, stage_error, hub_vars>>

\* A stage raises while the run is in it (the call of a collaborator, a commit
\* that the database refuses): the except clause
pipeline_stage_raises(id, commit_returns) ==
    /\ pc[id] = "validating"
    /\ except_clause(id, "stage error", commit_returns)
    /\ UNCHANGED <<db_predictions, db_trades, iter, enqueued, started, events,
                   llm_outcome, hub_vars>>

--------------------------------------------------------------------------
(* The specifications                                                      *)

\* What each specification leaves as constructed
LimiterIdle == RateLimiterInit /\ limits = [max_requests |-> 1, window_seconds |-> 1]
RiskIdle == RiskManagerInit /\ request = CHOOSE r \in Requests : TRUE
HubIdle ==
    /\ ConnectionManagerInit
    /\ HubRunInit /\ bridge.enum_format = "value"
PipelineIdle == PipelineInit

\* The Risk Engine alone, called with one request in every state it can be in
InitRisk ==
    /\ RiskManagerInit
    /\ request \in Requests
    /\ LimiterIdle /\ HubIdle /\ PipelineIdle

RiskFrame == UNCHANGED <<closes, limiter_vars, hub_vars, hub_run_vars, pipeline_vars>>

NextRisk ==
    \/ assess_trade /\ RiskFrame
    \/ \E pnl \in PnlInputs : update_daily_stats(pnl) /\ RiskFrame
    \/ activate_kill_switch /\ RiskFrame
    \/ deactivate_kill_switch /\ RiskFrame
    \/ AdvanceDay /\ RiskFrame

SpecRisk == InitRisk /\ [][NextRisk]_vars

\* The Risk Engine's daily counters, with the closes it is told of recorded;
\* assess_trade is called with one request that no check but the daily ones
\* can reject
StatsRequest ==
    [symbol |-> "EURUSD", account_equity |-> 10000, signal_confidence |-> 100,
     stop_loss_points |-> 5000, current_positions |-> <<>>,
     spread_points |-> {}, volatility_atr |-> {}]

InitStats ==
    /\ RiskManagerInit
    /\ request = StatsRequest
    /\ LimiterIdle /\ HubIdle /\ PipelineIdle

StatsFrame == UNCHANGED <<limiter_vars, hub_vars, hub_run_vars, pipeline_vars>>

NextStats ==
    \/ assess_trade /\ UNCHANGED closes /\ StatsFrame
    \/ \E pnl \in ClosePnlInputs :
          update_daily_stats(pnl) /\ RecordClose(pnl) /\ StatsFrame
    \/ activate_kill_switch /\ UNCHANGED closes /\ StatsFrame
    \/ deactivate_kill_switch /\ UNCHANGED closes /\ StatsFrame
    \/ AdvanceDay /\ UNCHANGED closes /\ StatsFrame

SpecStats == InitStats /\ [][NextStats]_vars

\* Position sizing alone, called once with each of its inputs
InitSizing ==
    /\ RiskManagerInit
    /\ request \in SizingRequests
    /\ LimiterIdle /\ HubIdle /\ PipelineIdle

NextSizing == call_calculate_position_size /\ RiskFrame

SpecSizing == InitSizing /\ [][NextSizing]_vars

\* The Rate Limiter alone, its callers passing one pair of limits
InitLimiter ==
    /\ RateLimiterInit
    /\ limits \in [max_requests : 1..MaxRequestsBound, window_seconds : 1..MaxWindowBound]
    /\ RiskIdle /\ HubIdle /\ PipelineIdle

LimiterFrame == UNCHANGED <<risk_vars, hub_vars, hub_run_vars, pipeline_vars>>

NextLimiter ==
    \/ \E key \in Keys :
          is_allowed(key, limits.max_requests, limits.window_seconds)
          /\ LimiterFrame
    \/ AdvanceTime /\ LimiterFrame

SpecLimiter == InitLimiter /\ [][NextLimiter]_vars

\* The pipeline with the hub it broadcasts through and the risk manager's
\* kill switch beside it
InitPipeline ==
    /\ PipelineInit
    /\ HubIdle
    /\ RiskIdle /\ LimiterIdle

HubFrame == UNCHANGED <<risk_vars, limiter_vars, pipeline_vars, hub_run_vars>>
ReceiveFrame == UNCHANGED <<risk_vars, hub_run_vars>>
PipelineFrame == UNCHANGED <<risk_vars, limiter_vars, webhook_call, hub_run_vars>>
KillSwitchFrame == UNCHANGED <<closes, limiter_vars, hub_vars, hub_run_vars, pipeline_vars>>

NextPipeline ==
    \/ \E id \in SignalIds : receive_signal(id, AuthenticRequest) /\ ReceiveFrame
    \/ \E id \in SignalIds : \E w \in Websockets : broadcast_next(id, w) /\ PipelineFrame
    \/ \E id \in SignalIds : broadcast_end(id) /\ PipelineFrame
    \/ \E id \in SignalIds : \E commit_returns \in BOOLEAN :
          broadcast_raises(id, commit_returns) /\ PipelineFrame
    \/ \E id \in SignalIds : pipeline_start(id) /\ PipelineFrame
    \/ \E id \in SignalIds : \E outcome \in LLMOutcomes :
          pipeline_decide(id, outcome) /\ PipelineFrame
    \/ \E id \in SignalIds : \E commit_returns \in BOOLEAN :
          pipeline_stage_raises(id, commit_returns) /\ PipelineFrame
    \/ \E w \in Websockets : \E room \in RoomInputs : connect(w, room) /\ HubFrame
    \/ \E w \in Websockets : ClientGone(w) /\ HubFrame
    \/ \E w \in Websockets : disconnect(w) /\ HubFrame
    \/ activate_kill_switch /\ KillSwitchFrame
    \/ deactivate_kill_switch /\ KillSwitchFrame

SpecPipeline == InitPipeline /\ [][NextPipeline]_vars

\* The ingestion boundary alone: every request it can be sent, with no
\* observer connected and no run started
InitAdmission ==
    /\ PipelineInit
    /\ HubIdle
    /\ RiskIdle /\ LimiterIdle

NextAdmission ==
    \E id \in SignalIds : \E req \in WebhookRequests :
        receive_signal(id, req) /\ ReceiveFrame

SpecAdmission == InitAdmission /\ [][NextAdmission]_vars

\* The hub alone, with the observers, the callers of broadcast_to_room, the
\* Redis bridge and the price task
InitHub ==
    /\ ConnectionManagerInit
    /\ HubRunInit
    /\ RiskIdle /\ LimiterIdle /\ PipelineIdle

HubRunFrame == UNCHANGED <<risk_vars, limiter_vars, pipeline_vars>>

NextHub ==
    \/ \E w \in Websockets : \E room \in HubRoomInputs : connect(w, room) /\ HubFrame
    \/ \E w \in Websockets : ClientGone(w) /\ HubFrame
    \/ \E w \in Websockets : disconnect(w) /\ HubFrame
    \/ \E b \in BroadcastIds : \E room \in LocalBroadcastRooms :
          local_broadcast(b, room) /\ HubRunFrame
    \/ \E b \in BroadcastIds : \E w \in Websockets : room_broadcast_next(b, w) /\ HubRunFrame
    \/ \E b \in BroadcastIds : room_broadcast_end(b) /\ HubRunFrame
    \/ \E b \in BroadcastIds : room_broadcast_raises(b) /\ HubRunFrame
    \/ \E is_member \in BOOLEAN : peer_publishes("signals", is_member) /\ HubRunFrame
    \/ \E is_member \in BOOLEAN : publish_to_redis("signals", is_member) /\ HubRunFrame
    \/ \E b \in BroadcastIds : redis_listener_receives(b) /\ HubRunFrame
    \/ \E b \in BroadcastIds : price_fetch_returns(b) /\ HubRunFrame
    \/ price_fetch_raises /\ HubRunFrame
    \/ price_sleep_ends /\ HubRunFrame
    \/ shutdown_event /\ HubRunFrame

SpecHub == InitHub /\ [][NextHub]_vars

--------------------------------------------------------------------------
(* Signal Pipeline: properties                                             *)

\* C1 (as claimed): the statuses committed for a Signal are a prefix of
\* received followed by exactly one of executed, rejected, failed: a terminal
\* status, once committed, is never overwritten, and received never comes back.
C1_StatusesArePrefix ==
    \A id \in SignalIds :
        /\ Len(status_log[id]) <= 2
        /\ Len(status_log[id]) >= 1 => status_log[id][1] = "received"
        /\ Len(status_log[id]) >= 2 => status_log[id][2] \in Terminal

\* C4 (as claimed): while the kill switch is active no step of a pipeline run
\* takes a Signal to status executed or creates a Trade.
C4_KillSwitchBlocksExecution ==
    [][kill_switch_active =>
         /\ db_trades' = db_trades
         /\ \A id \in DOMAIN db_signals :
                db_signals'[id].status = "executed"
                    => db_signals[id].status = "executed"]_vars

\* The validator failed: the service was unreachable, timed out, answered with
\* an HTTP error, or its response was malformed or incomplete
ValidatorFailed(outcome) ==
    \/ outcome.kind \in {"connection_error", "timeout", "http_error", "invalid_json"}
    \/ outcome.kind = "answer" /\ ~outcome.is_dict
    \/ outcome.kind = "answer" /\ outcome.is_dict
          /\ ~({"approved", "confidence", "reasoning"} \subseteq DOMAIN outcome.dict)

\* The Prediction rows stored for a signal
PredictionsOf(id) == SelectSeq(db_predictions, LAMBDA p : p.signal_id = id)

\* The reasoning texts stored for verdicts the validator did give
GenuineReasonings ==
    {validate_signal(o).reasoning : o \in {o \in LLMOutcomes : ~ValidatorFailed(o)}}

\* C15 (as claimed): after a failed validation the stored verdict is approved
\* with confidence below 1.0, the run goes on to the risk stage (the status
\* that follows received is executed, never rejected or failed), and the
\* stored reasoning is none a genuine verdict has.
C15_ValidatorFailureFallsBack ==
    \A id \in SignalIds :
        ValidatorFailed(llm_outcome[id]) =>
            /\ \A i \in 1..Len(PredictionsOf(id)) :
                   /\ PredictionsOf(id)[i].llm_approved
                   /\ PredictionsOf(id)[i].llm_confidence < 100
                   /\ PredictionsOf(id)[i].llm_reasoning \notin GenuineReasonings
            /\ Len(status_log[id]) >= 2 => status_log[id][2] = "executed"

\* C16 (as claimed): when a stage of a run raises, the run returns with the
\* Signal committed as failed and the exception message as rejection_reason,
\* and no other Signal's row changes.
C16_StageErrorFails ==
    [][\A id \in SignalIds :
          (stage_error[id] = "none" /\ stage_error'[id] # "none") =>
              /\ pc'[id] = "done"
              /\ db_signals'[id] = [status |-> "failed",
                                    rejection_reason |-> stage_error'[id]]
              /\ \A other \in DOMAIN db_signals \ {id} :
                     db_signals'[other] = db_signals[other]]_vars

\* C17 (as claimed): a run is enqueued and started at most once per Signal
\* id, and once the request that created a Signal has ended, exactly one run
\* has been enqueued for it.
C17_OneRunPerSignal ==
    \A id \in SignalIds :
        /\ enqueued[id] <= 1
        /\ started[id] <= enqueued[id]
        /\ (id \in DOMAIN db_signals /\ pc[id] # "receive_broadcast")
              => enqueued[id] = 1

\* The run of a signal has ended, by return or by an exception
RunEnded(id) == started[id] >= 1 /\ pc[id] \in {"done", "run_error"}

\* C18 (as claimed): once the run of a Signal has ended, whatever its stages
\* returned or raised, the Signal is executed, rejected or failed, not
\* received; a rejected Signal has a rejection_reason.
C18_NeverLeftAtReceived ==
    \A id \in SignalIds :
        RunEnded(id) =>
            /\ db_signals[id].status \in Terminal
            /\ db_signals[id].status = "rejected"
                  => db_signals[id].rejection_reason # "none"

\* C19 (as claimed): a Trade exists for a Signal only if the Signal's status
\* is executed, there is at most one Trade per Signal, and its requested size
\* is above 0.
C19_TradeOnlyIfExecuted ==
    \A i \in 1..Len(db_trades) :
        /\ db_trades[i].signal_id \in DOMAIN db_signals
        /\ db_signals[db_trades[i].signal_id].status = "executed"
        /\ db_trades[i].requested_lots > 0
        /\ \A j \in 1..Len(db_trades) :
               db_trades[j].signal_id = db_trades[i].signal_id => j = i

\* C20 (as claimed): every status committed for a Signal has been broadcast
\* on the signals room by the time its run has ended.
C20_EveryTransitionBroadcast ==
    \A id \in SignalIds :
        RunEnded(id) =>
            \A i \in 1..Len(status_log[id]) :
                \E j \in 1..Len(events[id]) : events[id][j] = status_log[id][i]

--------------------------------------------------------------------------
(* Signal Pipeline: the order of a Signal's events                         *)

\* The positions of events[id] that hold a terminal status
TerminalEvents(id) == {i \in 1..Len(events[id]) : events[id][i] \in Terminal}

\* C21: of every Signal the received event is broadcast first. While its
\* received broadcast has not returned (or has raised), no run is enqueued or
\* started for it and no other event of it exists; a terminal event is only
\* ever broadcast by a run, after the received event.
C21_ReceivedBroadcastFirst ==
    \A id \in SignalIds :
        /\ events[id] # <<>> => events[id][1] = "received"
        /\ \A i \in TerminalEvents(id) : i > 1 /\ started[id] > 0
        /\ pc[id] \in {"idle", "receive_broadcast", "receive_error"} =>
              /\ enqueued[id] = 0
              /\ started[id] = 0
              /\ TerminalEvents(id) = {}

\* C21 witness: while an observer is in the signals room, a Signal's received
\* event and then its executed event were broadcast, and the run is over.
C21_Witness ==
    \E id \in SignalIds :
        /\ events[id] = <<"received", "executed">>
        /\ pc[id] = "done"
        /\ \E w \in Websockets :
              /\ websockets[w] = [state |-> "open", room |-> "signals"]
              /\ w \in ConnectionsOf("signals")

--------------------------------------------------------------------------
(* Broadcast Hub: properties.  They speak of the calls of broadcast_to_room*)
(* made so far: members is the room's set when the call was made,          *)
(* attempted the websockets a send was started for, failed those whose     *)
(* send raised.                                                            *)

Over(b) == calls[b].state \in {"returned", "raised", "cancelled"}
Receivers(b) == {w \in Websockets : delivered[w][b] > 0}
RoomsOf(w) == {room \in DOMAIN active_connections : w \in active_connections[room]}

\* C23 (as claimed): the websockets that receive the message of a call are
\* among those subscribed to its room when the call was made and are in that
\* room, so that none subscribing later receives it; a call for a room that
\* does not exist or has nobody in it returns at once and delivers nothing.
C23_OnlySubscribersAtCallReceive ==
    \A b \in BroadcastIds :
        /\ Receivers(b) \subseteq calls[b].members
        /\ \A w \in Receivers(b) : websockets[w].room = calls[b].for_room
        /\ (calls[b].state # "idle" /\ calls[b].members = {}) =>
              calls[b].state = "returned" /\ Receivers(b) = {}

\* C24 (as claimed): a call in which a send failed has not raised, has
\* removed the websockets whose send failed, and has delivered the message
\* exactly once to every other websocket that was subscribed.
C24_SendFailureIsolated ==
    \A b \in BroadcastIds :
        (calls[b].state \in {"returned", "raised"} /\ calls[b].failed # {}) =>
            /\ calls[b].state = "returned"
            /\ calls[b].failed \cap ConnectionsOf(calls[b].room) = {}
            /\ \A w \in calls[b].members \ calls[b].failed : delivered[w][b] = 1

C26_BusMessageDeliveredNotRepublished ==
    /\ \A b \in BroadcastIds :
          calls[b].origin = "bus" => calls[b].room = calls[b].for_room
    /\ \A i \in 1..Len(bridge.published) : bridge.published[i].source = "local"

\* C28 (as claimed): no call of broadcast_to_room ends with an error, and a
\* call that returned has delivered its message to every websocket that was
\* subscribed when it was made and has stayed connected since.
C28_BroadcastSurvivesMembershipChanges ==
    \A b \in BroadcastIds :
        /\ calls[b].state # "raised"
        /\ calls[b].state = "returned" =>
              \A w \in calls[b].members :
                  websockets[w].state = "open" => delivered[w][b] = 1

\* C29 (as claimed): once shutdown has cancelled the price task the task has
\* ended, and the broadcast it was cancelled in had a send started for all
\* of the room's subscribers or for none.
C29_NoPartialBroadcastOnCancel ==
    /\ bridge.listener = "cancelled" => price_task = "ended"
    /\ \A b \in BroadcastIds :
          (calls[b].origin = "prices" /\ calls[b].state = "cancelled") =>
              \/ calls[b].attempted = {}
              \/ calls[b].members \subseteq calls[b].attempted

--------------------------------------------------------------------------
(* Rate Limiter: properties                                                *)

\* The number of admissions of key with a timestamp in the closed interval
\* [from, from + length]
AdmittedWithin(key, from, length) ==
    Cardinality({i \in 1..Len(admissions[key]) :
                    /\ admissions[key][i] >= from
                    /\ admissions[key][i] <= from + length})

\* C2 (as claimed): for every key, the calls that returned True within any
\* time interval of length window_seconds, its two boundary instants
\* included, never number more than max_requests.
C2_WindowNeverExceeded ==
    \A key \in Keys : \A from \in 0..MaxTime :
        AdmittedWithin(key, from, limits.window_seconds) <= limits.max_requests

--------------------------------------------------------------------------
\* The step is an is_allowed call that returned False
RefusedStep ==
    /\ utc_now' = utc_now
    /\ limiter_call'.op = "is_allowed"
    /\ ~limiter_call'.result

\* The timestamps a limiter state reqs holds for key that lie within the
\* window ending at time t
InWindow(reqs, key, t) ==
    IF key \in DOMAIN reqs
    THEN SelectSeq(reqs[key], LAMBDA ts : ts > t - limits.window_seconds)
    ELSE <<>>

\* C27: an is_allowed call that returns False records no admission: the
\* timestamps retained for its key within the current window, and within the
\* window of every later instant, are the same before and after the call, the
\* other keys' timestamps are untouched, and so is the record of admissions.
C27_RefusalRecordsNothing ==
    [][RefusedStep =>
          /\ admissions' = admissions
          /\ \A t \in utc_now..(MaxTime + MaxWindowBound) :
                InWindow(requests', limiter_call'.key, t)
                    = InWindow(requests, limiter_call'.key, t)
          /\ \A k \in Keys \ {limiter_call'.key} :
                /\ k \in DOMAIN requests' <=> k \in DOMAIN requests
                /\ k \in DOMAIN requests => requests'[k] = requests[k]
      ]_vars

\* C27 witness: with two requests per window, a key was admitted at two
\* different instants and then refused; both admissions are still retained.
C27_Witness ==
    \E key \in Keys :
        /\ limiter_call = [op |-> "is_allowed", key |-> key, result |-> FALSE]
        /\ limits.max_requests = 2
        /\ Len(requests[key]) = 2
        /\ requests[key][1] < requests[key][2]
        /\ requests[key] = admissions[key]

--------------------------------------------------------------------------
(* Risk Engine: properties.  They speak of the state right after an        *)
(* assess_trade call: risk_call holds its return value, daily_stats and    *)
(* kill_switch_active are what the call read, request is what it was given.*)

Assessed == risk_call.op = "assess_trade"
Result == risk_call.result

HasReason(r) == \E i \in 1..Len(Result.reasons) : Result.reasons[i] = r

\* The conditions of the single checks, stated on the inputs
DailyLossReached ==
    -daily_stats.pnl * 100 >= request.account_equity * daily_loss_limit_pct
TotalPositionsReached == Len(request.current_positions) >= max_total_positions
SymbolPositionsReached ==
    Cardinality({i \in 1..Len(request.current_positions) :
                    request.current_positions[i].symbol = request.symbol})
        >= max_positions_per_symbol
SpreadTooWide == \E s \in request.spread_points : s > max_spread_points
VolatilityOutOfBand ==
    \E v \in request.volatility_atr : v < min_volatility_atr \/ v > max_volatility_atr
ExposureHeadroom == max_exposure(request) - current_exposure(request)
ExposureExhausted == ExposureHeadroom <= 0
ComputedSize ==
    HundredthLot * calculate_position_size(request.account_equity,
                                           request.signal_confidence,
                                           request.stop_loss_points)
ExposureReduced == ~ExposureExhausted /\ ComputedSize > ExposureHeadroom
BelowMinimumConfidence == request.signal_confidence < MinimumConfidence
BelowCautionConfidence == request.signal_confidence < CautionConfidence

\* Every check other than the consecutive-loss check lets the trade through
OtherChecksPermit ==
    /\ ~DailyLossReached
    /\ ~TotalPositionsReached
    /\ ~SymbolPositionsReached
    /\ ~SpreadTooWide
    /\ ~VolatilityOutOfBand
    /\ ~ExposureExhausted
    /\ ~BelowMinimumConfidence

\* C3: whenever the kill switch is active, assess_trade returns approved=false
\* and risk_level=critical, whatever the other inputs and the daily counters.
C3_KillSwitchRejects ==
    (Assessed /\ kill_switch_active) =>
        (~Result.approved /\ Result.risk_level = "critical")

\* C3 witness: an assessment under an active kill switch of a request that
\* every other check would let through.
C3_Witness ==
    /\ Assessed /\ kill_switch_active
    /\ OtherChecksPermit /\ daily_stats.consecutive_losses = 0
    /\ request.signal_confidence = 100
    /\ ~Result.approved

\* C5: in every RiskAssessment returned by assess_trade, a non-empty list of
\* blocking reasons implies approved=false.
C5_ReasonsImplyRejected ==
    Assessed => (Result.reasons # <<>> => ~Result.approved)

\* C5 witness: an assessment, kill switch off, that carries several reasons.
C5_Witness ==
    /\ Assessed /\ ~kill_switch_active
    /\ Len(Result.reasons) >= 3
    /\ HasReason("Spread too wide")
    /\ ~Result.approved

\* C6 (as claimed): position_size_lots of every returned assessment lies within
\* the venue bounds, 0.01 to 10.0 lots.
C6_SizeWithinVenueBounds ==
    Assessed =>
        /\ Result.position_size_lots >= MinLotsHundredths * HundredthLot
        /\ Result.position_size_lots <= MaxLotsHundredths * HundredthLot

\* C7: kill switch off. At consecutive_losses = max_consecutive_losses the
\* assessment is rejected; at max_consecutive_losses - 1, no other check
\* failing, it is approved and carries a warning.
C7_ConsecutiveLosses ==
    (Assessed /\ ~kill_switch_active) =>
        /\ daily_stats.consecutive_losses = max_consecutive_losses
              => ~Result.approved
        /\ (daily_stats.consecutive_losses = max_consecutive_losses - 1
            /\ OtherChecksPermit)
              => (Result.approved /\ Result.warnings # <<>>)

\* C7 witness: an approved assessment one loss short of the limit.
C7_Witness ==
    /\ Assessed /\ ~kill_switch_active
    /\ daily_stats.consecutive_losses = max_consecutive_losses - 1
    /\ OtherChecksPermit
    /\ Result.approved
    /\ Result.risk_level = "high"

\* C8 (as claimed): when the open positions' exposure already equals or
\* exceeds max_total_exposure_pct of equity, the assessment has size 0 and is
\* rejected with an exposure-limit reason.
C8_ExposureExhaustedSizeZero ==
    (Assessed /\ ~kill_switch_active /\ ExposureExhausted) =>
        /\ Result.position_size_lots = 0
        /\ ~Result.approved
        /\ HasReason("Total exposure limit reached")

\* C9 (as claimed): confidence below 0.5 is rejected with a confidence reason
\* whatever the other checks say; between 0.5 and 0.6 the trade is approved,
\* other checks permitting, with a warning and a level of at least medium.
C9_ConfidenceFloor ==
    (Assessed /\ ~kill_switch_active) =>
        /\ BelowMinimumConfidence
              => (~Result.approved /\ HasReason("Signal confidence too low"))
        /\ (~BelowMinimumConfidence /\ BelowCautionConfidence)
              => /\ Result.warnings # <<>>
                 /\ RiskLevelIndex(Result.risk_level) >= RiskLevelIndex("medium")
                 /\ (OtherChecksPermit
                     /\ daily_stats.consecutive_losses < max_consecutive_losses)
                       => Result.approved

\* The severities the checks of one assessment trigger
TriggeredLevels ==
    {"low"}
    \cup (IF DailyLossReached THEN {"critical"} ELSE {})
    \cup (IF daily_stats.consecutive_losses >= max_consecutive_losses
          THEN {"critical"} ELSE {})
    \cup (IF daily_stats.consecutive_losses = max_consecutive_losses - 1
          THEN {"high"} ELSE {})
    \cup (IF ExposureReduced THEN {"medium"} ELSE {})
    \cup (IF BelowCautionConfidence THEN {"medium"} ELSE {})

MaxTriggeredLevel ==
    CHOOSE l \in TriggeredLevels :
        \A m \in TriggeredLevels : RiskLevelIndex(m) <= RiskLevelIndex(l)

\* C10 (as claimed): the returned risk_level is the maximum severity any check
\* of the assessment triggered; a later check never lowers an earlier level.
C10_RiskLevelIsMaximum ==
    (Assessed /\ ~kill_switch_active) =>
        Result.risk_level = MaxTriggeredLevel

\* C14 (as claimed): kill switch off, whenever the day's realized P&L is a loss
\* of at least daily_loss_limit_pct percent of the equity, every assessment is
\* rejected with risk_level critical.
C14_DailyLossRejectsCritical ==
    (Assessed /\ ~kill_switch_active /\ DailyLossReached) =>
        (~Result.approved /\ Result.risk_level = "critical")

--------------------------------------------------------------------------
(* Risk Engine: properties of the daily counters, against the closes that  *)
(* were recorded.                                                          *)

\* The closes recorded on a UTC day, in order
ClosesOfDay(day) == SelectSeq(closes, LAMBDA c : c.day = day)

RECURSIVE SumNetPnl(_)
SumNetPnl(cs) ==
    IF cs = <<>> THEN 0 ELSE Head(cs).net_pnl + SumNetPnl(Tail(cs))

RECURSIVE TrailingLosses(_)
\* The number of losing closes since the most recent non-losing close
TrailingLosses(cs) ==
    IF cs = <<>> THEN 0
    ELSE IF cs[Len(cs)].net_pnl < 0
         THEN 1 + TrailingLosses(SubSeq(cs, 1, Len(cs) - 1))
         ELSE 0

\* C12: the counters are those of the closes recorded on the day they stand
\* for: consecutive_losses is the number of losing closes since the most recent
\* non-losing close, pnl the sum of the net_pnl values, trades_count the number
\* of update_daily_stats calls.
C12_CountersMatchCloses ==
    LET day_closes == ClosesOfDay(daily_stats.last_reset)
    IN  /\ daily_stats.consecutive_losses = TrailingLosses(day_closes)
        /\ daily_stats.pnl = SumNetPnl(day_closes)
        /\ daily_stats.trades_count = Len(day_closes)

\* C12 witness: three closes on one day, a loss, a break-even close and a loss
\* again: the streak is back at 1.
C12_Witness ==
    LET day_closes == ClosesOfDay(daily_stats.last_reset)
    IN  /\ Len(day_closes) = 3
        /\ day_closes[1].net_pnl < 0
        /\ day_closes[2].net_pnl = 0
        /\ day_closes[3].net_pnl < 0
        /\ daily_stats.consecutive_losses = 1
        /\ daily_stats.pnl = -400

\* The UTC date has advanced past last_reset and no call has noticed yet
Stale == daily_stats.last_reset < utc_today

\* The step is an assess_trade call; the step is an update_daily_stats call
AssessStep == risk_call'.op = "assess_trade" /\ utc_today' = utc_today
UpdateStep == Len(closes') = Len(closes) + 1
UpdatePnl == closes'[Len(closes')].net_pnl

\* C13: the first assess_trade or update_daily_stats call after the UTC date
\* advanced past last_reset works on counters reset to zero (an assessment no
\* daily check rejects, an update that starts from zero), and a later call on
\* the same date does not reset them again.
C13_ResetOncePerDay ==
    [][/\ (AssessStep /\ Stale) =>
              /\ daily_stats' = [pnl |-> 0, trades_count |-> 0,
                                 consecutive_losses |-> 0, last_reset |-> utc_today]
              /\ ~kill_switch_active => risk_call'.result.approved
       /\ (AssessStep /\ ~Stale) => daily_stats' = daily_stats
       /\ (UpdateStep /\ Stale) =>
              daily_stats' = [pnl |-> UpdatePnl, trades_count |-> 1,
                              consecutive_losses |-> IF UpdatePnl < 0 THEN 1 ELSE 0,
                              last_reset |-> utc_today]
       /\ (UpdateStep /\ ~Stale) =>
              /\ daily_stats'.pnl = daily_stats.pnl + UpdatePnl
              /\ daily_stats'.trades_count = daily_stats.trades_count + 1
              /\ daily_stats'.last_reset = daily_stats.last_reset
      ]_vars

\* C13 witness: a day that ended at its daily loss limit, then on the next day
\* two closes counted from zero and an assessment that is approved.
C13_Witness ==
    /\ utc_today = 1 /\ daily_stats.last_reset = 1
    /\ SumNetPnl(ClosesOfDay(0)) = -200
    /\ Len(ClosesOfDay(1)) = 2
    /\ daily_stats.trades_count = 2
    /\ Assessed /\ ~kill_switch_active /\ Result.approved

--------------------------------------------------------------------------
(* Ingestion boundary: properties.  They speak of the state right after a  *)
(* receive_signal request was handled up to its response or its broadcast. *)

Received == webhook_call.op = "receive_signal"

\* The signature header of the request authenticates its payload: it is
\* present and holds the digest of this body under the shared secret
Authenticates(req) ==
    /\ req.signature_header.present
    /\ req.signature_header.value.key = TRADINGVIEW_SECRET
    /\ req.signature_header.value.payload = req.body

\* C22 (as claimed): a request that is rate-limited, whose signature header is
\* wrong, empty or missing, or whose payload is malformed, is answered with an
\* error and creates no Signal (and so no run of one).
C22_RejectedAtTheBoundary ==
    (/\ Received
     /\ \/ webhook_call.rate_limited
        \/ ~Authenticates(webhook_call.request)
        \/ webhook_call.request.body = "malformed")
    => /\ webhook_call.error_status \in {429, 401, 400}
       /\ webhook_call.signal_id = 0

--------------------------------------------------------------------------
(* Risk Engine: the kill switch across calls and days                      *)

\* The step is an activate_kill_switch or deactivate_kill_switch call
KillSwitchStep ==
    /\ risk_call'.op \in {"activate_kill_switch", "deactivate_kill_switch"}
    /\ daily_stats' = daily_stats /\ utc_today' = utc_today
    /\ closes' = closes

\* C30: the kill switch changes only in an activate_kill_switch or
\* deactivate_kill_switch call; assess_trade, update_daily_stats and the daily
\* reset they perform leave it as it is, and an assess_trade call made while
\* it is active, the first one of a new UTC day included, rejects.
C30_KillSwitchSurvivesReset ==
    [][/\ kill_switch_active' # kill_switch_active => KillSwitchStep
       /\ (AssessStep \/ UpdateStep \/ daily_stats' # daily_stats) =>
              kill_switch_active' = kill_switch_active
       /\ (AssessStep /\ kill_switch_active) =>
              /\ kill_switch_active'
              /\ ~risk_call'.result.approved
              /\ risk_call'.result.position_size_lots = 0
      ]_vars

\* C30 witness: the kill switch was activated on day 0, where closes were
\* counted; on day 1 an assess_trade call has reset the counters, the switch
\* is still active and the trade is rejected.
C30_Witness ==
    /\ utc_today = 1 /\ daily_stats.last_reset = 1
    /\ Len(ClosesOfDay(0)) > 0 /\ Len(ClosesOfDay(1)) = 0
    /\ daily_stats.trades_count = 0
    /\ kill_switch_active
    /\ Assessed /\ ~Result.approved /\ Result.risk_level = "critical"

--------------------------------------------------------------------------
(* Position sizing: properties.  They speak of the state right after a     *)
(* _calculate_position_size call: risk_call holds its return value, in     *)
(* hundredths of a lot, request its arguments.                             *)

Sized == risk_call.op = "_calculate_position_size"

\* The raw size in hundredths of a lot is RawNumerator / RawDenominator:
\*   equity * (max_position_size_pct * max(0.5, confidence) / 100)
\*       / (stop_loss_points * point_value) * 100
\* with confidence in percent
RawNumerator ==
    request.account_equity * max_position_size_pct
        * (IF request.signal_confidence > 50 THEN request.signal_confidence ELSE 50)
RawDenominator == 100 * request.stop_loss_points * point_value

\* r is a nearest multiple of the lot step to the raw size
NearestStep(r) ==
    /\ 2 * (r * RawDenominator - RawNumerator) <= RawDenominator
    /\ 2 * (RawNumerator - r * RawDenominator) <= RawDenominator

\* The returned size is the raw size rounded to the lot step, then clamped
ReturnsRoundedRawSize ==
    \E r \in {RawNumerator \div RawDenominator, RawNumerator \div RawDenominator + 1} :
        /\ NearestStep(r)
        /\ risk_call.result =
              (IF r < MinLotsHundredths THEN MinLotsHundredths
               ELSE IF r > MaxLotsHundredths THEN MaxLotsHundredths ELSE r)

\* The inputs of the worked example: equity 10000, confidence 1.0, stop 50
SizingExample ==
    /\ request.account_equity = 10000
    /\ request.signal_confidence = 100
    /\ request.stop_loss_points = 50

\* C11 (as claimed): the size is the raw size equity * (max_position_size_pct
\* * max(0.5, confidence) / 100) / (stop_loss_points * point_value) rounded to
\* the 0.01 lot step, and for the worked example it is 0.1 lots.
C11_SizeAsClaimed ==
    (Sized /\ request.stop_loss_points > 0) =>
        /\ ReturnsRoundedRawSize
        /\ SizingExample => risk_call.result = 10

\* C11 (amended): the size is the raw size rounded to the 0.01 lot step (and
\* kept within 0.01..10.0 lots), and for the worked example it is 1.0 lots.
C11_SizeFormula ==
    (Sized /\ request.stop_loss_points > 0) =>
        /\ ReturnsRoundedRawSize
        /\ SizingExample => risk_call.result = 100

\* C11 witness: the worked example has been computed.
C11_Witness ==
    /\ Sized /\ SizingExample
    /\ risk_call.result = 100

==========================================================================
